---- MODULE Spec2Model ----
(***************************************************************************)
(* The gameplay simulation of src/src/game/states/PlayingState.js: the     *)
(* per-tick update, the chaos model, XP and levelling, the kid spawn       *)
(* scheduler, the pickup / snatch / shelving passes and the pooled         *)
(* particles.                                                              *)
(*                                                                         *)
(* Numbers.  Time is counted in half seconds (TimeScale units per second)  *)
(* and chaos in 1/40 (ChaosScale units per point), so that every quantity  *)
(* the code computes in floating point on the inputs used here is an       *)
(* integer: 0.1*dt*(1 - d/100) chaos per floor book, 0.5*dt decay, the     *)
(* deltas 0.5, 0.75 and 1.0, the 1.5 s particle lifetime.  The XP          *)
(* multiplier is counted in tenths.                                        *)
(*                                                                         *)
(* Player, Kid, Shelf and Book are classes of the repository whose files   *)
(* are not part of the sources read here; the operations of theirs that    *)
(* PlayingState calls are modelled from the specification's data model     *)
(* and are marked so in the model map.  Positions are not modelled: the    *)
(* outcome of each proximity test of a tick is an input of the tick.       *)
(***************************************************************************)
EXTENDS Integers, Sequences, FiniteSets, TLC

\* ---------------------------------------------------------------- scales
TimeScale == 2
ChaosScale == 40
MultScale == 10

\* ------------------------------------------------------- program constants
\* colors.length in generateLibraryLayout
numColors == 6
maxChaosPoints == 100
targetTimeSeconds == 1800
kidSpawnIntervalSeconds == 10
initialKids == 2
initialSize == 20
baseXpToNext == 100
pickupXP == 5
snatchXP == 7
shelveXP == 10

maxChaos == maxChaosPoints * ChaosScale
targetTime == targetTimeSeconds * TimeScale
kidSpawnInterval == kidSpawnIntervalSeconds * TimeScale
\* particle.lifetime = 1.5
particleLifetime == (3 * TimeScale) \div 2
\* chaosLevel -= 0.5 / 0.75 / 1.0
pickupChaosDelta == ChaosScale \div 2
snatchChaosDelta == (3 * ChaosScale) \div 4
shelveChaosDelta == ChaosScale

\* ------------------------------------------------------------------ bounds
\* shelves of the layout (the code lays out rows * cols = 32)
NumShelves == 2
\* Shelf.capacity
capacity == 1
\* update calls explored
MaxTicks == 2
\* awardXP calls explored by SpecXP
MaxCalls == 4
\* highest playerLevel SpecXP starts from
MaxStartLevel == 3
\* updateChaos calls explored by SpecChaos
MaxChaosCalls == 2
\* get and release calls explored by SpecPool
MaxPoolOps == 6

\* Player.stats.carrySlots
carrySlots == 1

Shelves == 1..NumShelves
NumBooks == NumShelves * capacity
Books == 1..NumBooks
Colors == 1..numColors
NoBook == 0

\* deltaTime values of a tick, in half seconds: 1 s, 20 s, 300 s
DeltaTimes == {2, 40, 600}
\* deltaTime values of a run played to its end: 300 s, 1000 s, 1800 s
LongDeltaTimes == {600, 2000, 3600}
\* and of the frame that starts it: 1 s
ShortDeltaTime == 2
\* player.stats.chaosDampening values of a run, in percent
Dampenings == {0, 50}
\* player.getXPMultiplier() values of a run, in tenths
XPMultipliers == {10, 150}

\* awardXP amounts of SpecXP: the three the passes use, and two that cross
\* one and two levels
XPAmounts == {5, 7, 10, 80, 250}
\* deltaTime of the updateParticles calls, in half seconds
ParticleDeltaTimes == {1, 2}
\* player.getXPMultiplier() values of SpecXP, in tenths (0: falsy, so 1)
XPCallMultipliers == {0, 10, 15}

\* initialSize values of SpecPool: pools that run empty, and the default
PoolSizes == {0, 1, 2, initialSize}
\* the instances of the particle pool still free in a run in progress
FreeInstances == {0, 1, 2, initialSize}

\* inputs of SpecChaos.  chaosLevel on entry to updateChaos: what a snatch
\* at chaosLevel 0 leaves (-0.75), 0, 10 points, and 0.25 below maxChaos
ChaosLevels == {0 - snatchChaosDelta, 0, 10 * ChaosScale, maxChaos - (ChaosScale \div 4)}
\* player.stats.chaosDampening, in percent
ChaosDampenings == {0, 50, 100}
\* deltaTime, in half seconds: 1 s, 6 s, 300 s
ChaosDeltaTimes == {2, 12, 600}

VARIABLES
    phase,          \* "constructed" | "running" | "exited"
    gameData,       \* this.game.gameData
    maxKids,        \* this.maxKids
    kidSpawnTimer,  \* this.kidSpawnTimer
    kids,           \* this.kids: sequence of kid records
    books,          \* this.books
    shelves,        \* this.shelves
    isHeld,         \* book.isHeld, by book
    isShelved,      \* book.isShelved, by book
    bookColor,      \* book.color, by book
    shelfColor,     \* shelf.color, by shelf
    slots,          \* shelf.books, by shelf
    carriedBooks,   \* player.carriedBooks
    chaosDampening, \* player.stats.chaosDampening
    xpMultiplier,   \* what player.getXPMultiplier() returns
    particles,      \* this.particles
    pool,           \* this.particlePool.pool
    created,        \* number of particle records the pool's factory has built
    log,            \* what the last update call did, in order
    sinceSpawn,     \* deltaTime of the uncapped scheduler calls since the last spawn
    ticks           \* update calls so far

vars == <<phase, gameData, maxKids, kidSpawnTimer, kids, books, shelves, isHeld, isShelved,
          bookColor, shelfColor, slots, carriedBooks, chaosDampening, xpMultiplier,
          particles, pool, created, log, sinceSpawn, ticks>>

\* ----------------------------------------------------------------- helpers
Min(a, b) == IF a < b THEN a ELSE b
Max(a, b) == IF a > b THEN a ELSE b

RECURSIVE Pow(_, _)
Pow(b, n) == IF n = 0 THEN 1 ELSE b * Pow(b, n - 1)

Range(s) == {s[i] : i \in 1..Len(s)}

RemoveAt(s, i) == SubSeq(s, 1, i - 1) \o SubSeq(s, i + 1, Len(s))

\* xpToNextFor with 50 for the factor 100
xpToNextFor_HalfBase(level) ==
    IF level <= 2
    THEN ((baseXpToNext \div 2) * Pow(29, level - 1)) \div Pow(20, level - 1)
    ELSE Pow(29, level - 1)
           \div ((Pow(20, 2) \div (baseXpToNext \div 2)) * Pow(20, level - 3))

\* Math.floor(100 * Math.pow(1.45, level - 1)): 1.45 = 29/20, and the double
\* result equals the exact floor of 100 * 29^n / 20^n, n = level - 1, for every
\* level up to 12; written so that no intermediate value leaves 32 bits up to
\* level 7
xpToNextFor(level) ==
    IF level <= 2
    THEN (baseXpToNext * Pow(29, level - 1)) \div Pow(20, level - 1)
    ELSE Pow(29, level - 1) \div ((Pow(20, 2) \div baseXpToNext) * Pow(20, level - 3))

\* one entry of the record of what an update call did
Event(e, x, y) == [ev |-> e, a |-> x, b |-> y]

\* ------------------------------------------------------------- ObjectPool
\* poolGetObj with shift() for pop(): the first instance of the free list
poolGetObj_Shift(w) ==
    IF Len(w.pool) > 0 THEN w.pool[1] ELSE w.created + 1

\* get(): the instance handed out (the last released one, or a new one)
poolGetObj(w) ==
    IF Len(w.pool) > 0 THEN w.pool[Len(w.pool)] ELSE w.created + 1

\* poolGet that leaves the instance handed out in the free list
poolGet_Peek(w) ==
    IF Len(w.pool) > 0 THEN w ELSE [w EXCEPT !.created = w.created + 1]

\* get(): the pool afterwards
poolGet(w) ==
    IF Len(w.pool) > 0
    THEN [w EXCEPT !.pool = SubSeq(w.pool, 1, Len(w.pool) - 1)]
    ELSE [w EXCEPT !.created = w.created + 1]

\* release(obj)
poolRelease(w, obj) == [w EXCEPT !.pool = Append(w.pool, obj)]

\* ------------------------------------------------------------ collaborators
\* Player.pickupBook(book): whether the player has a free carry slot
canPickupBook(w) == Len(w.carriedBooks) < carrySlots

\* Player.pickupBook(book), when it succeeds
pickupBook(w, book) == [w EXCEPT !.carriedBooks = Append(w.carriedBooks, book)]

\* Book.pickup(holder)
bookPickup(w, book) ==
    [w EXCEPT !.isHeld[book] = TRUE, !.isShelved[book] = FALSE]

\* Shelf.hasEmptySlots()
hasEmptySlots(w, shelf) == Len(w.slots[shelf]) < capacity

\* Player.shelveBook(shelf): index of the first carried book the shelf accepts
\* (colour match), 0 when there is none
shelveIndex(w, shelf) ==
    LET ok == {i \in 1..Len(w.carriedBooks) :
                  bookColor[w.carriedBooks[i]] = shelfColor[shelf]}
    IN IF ok = {} THEN 0 ELSE CHOOSE i \in ok : \A j \in ok : i <= j

\* Player.shelveBook(shelf), when it returns a book: the book leaves the list
shelveBook(w, i) ==
    [w EXCEPT !.carriedBooks = RemoveAt(w.carriedBooks, i)]

\* Shelf.addBook(book): whether the shelf takes the book
canAddBook(w, shelf, book) ==
    /\ Len(w.slots[shelf]) < capacity
    /\ bookColor[book] = shelfColor[shelf]

\* Shelf.addBook(book), when it succeeds
addBook(w, shelf, book) ==
    [w EXCEPT !.slots[shelf] = Append(w.slots[shelf], book),
              !.isShelved[book] = TRUE,
              !.isHeld[book] = FALSE]

\* Kid.update: the kid takes a shelved book off its shelf
kidSteal(w, k, book) ==
    LET shelf == CHOOSE s \in Shelves : book \in Range(w.slots[s])
        i == CHOOSE j \in 1..Len(w.slots[shelf]) : w.slots[shelf][j] = book
    IN [w EXCEPT !.slots[shelf] = RemoveAt(w.slots[shelf], i),
                 !.isShelved[book] = FALSE,
                 !.isHeld[book] = TRUE,
                 !.kids[k].carriedBook = book,
                 !.kids[k].dropBookTimer = 1,
                 !.kids[k].state = "carrying"]

\* Kid.update: the kid drops the book it carries on the floor
kidDrop(w, k) ==
    LET book == w.kids[k].carriedBook
    IN [w EXCEPT !.isHeld[book] = FALSE,
                 !.kids[k].carriedBook = NoBook,
                 !.kids[k].dropBookTimer = 0,
                 !.kids[k].state = "seeking"]

\* new Kid(game, x, y, aggressionLevel)
newKid(aggressionLevel) ==
    [aggressionLevel |-> aggressionLevel, carriedBook |-> NoBook,
     dropBookTimer |-> 0, state |-> "seeking"]

\* --------------------------------------------------------------- awardXP
\* levelUpLoop with an if for the while: one level per call at most
levelUpLoop_Once(w) ==
    IF w.gameData.xp >= w.gameData.xpToNext
    THEN [w EXCEPT !.gameData.xp = w.gameData.xp - w.gameData.xpToNext,
                   !.gameData.playerLevel = w.gameData.playerLevel + 1,
                   !.gameData.xpToNext = xpToNextFor(w.gameData.playerLevel + 1),
                   !.log = Append(w.log, Event("upgradeSelection",
                                               w.gameData.playerLevel + 1,
                                               xpToNextFor(w.gameData.playerLevel + 1)))]
    ELSE w

\* the level-up loop of awardXP; the entry "upgradeSelection" of the log
\* records the level reached and the xpToNext set for it
RECURSIVE levelUpLoop(_)
levelUpLoop(w) ==
    IF w.gameData.xp >= w.gameData.xpToNext
    THEN levelUpLoop(
           [w EXCEPT !.gameData.xp = w.gameData.xp - w.gameData.xpToNext,
                     !.gameData.playerLevel = w.gameData.playerLevel + 1,
                     !.gameData.xpToNext = xpToNextFor(w.gameData.playerLevel + 1),
                     !.log = Append(w.log, Event("upgradeSelection",
                                                 w.gameData.playerLevel + 1,
                                                 xpToNextFor(w.gameData.playerLevel + 1)))])
    ELSE w

\* Math.floor(amount * xpMultiplier), with xpMultiplier || 1
multipliedAmount(amount, mult) ==
    (amount * (IF mult = 0 THEN MultScale ELSE mult)) \div MultScale

\* the XP particle of awardXP
spawnParticle(w) ==
    LET p == [id |-> poolGetObj(w), age |-> 0, lifetime |-> particleLifetime]
        w1 == poolGet(w)
    IN [w1 EXCEPT !.particles = Append(w1.particles, p)]

awardXP(w, amount, mult) ==
    LET w1 == [w EXCEPT !.gameData.xp = w.gameData.xp + multipliedAmount(amount, mult)]
    IN levelUpLoop(spawnParticle(w1))

\* ------------------------------------------------------------ updateChaos
booksOnFloor(w) ==
    Cardinality({i \in 1..Len(books) : ~w.isHeld[books[i]] /\ ~w.isShelved[books[i]]})

\* chaosRate * deltaTime * chaosMultiplier = n * 0.1 * dt * (1 - d/100)
chaosAccrual(n, deltaTime, dampening) ==
    (n * deltaTime * (100 - dampening) * ChaosScale) \div (10 * 100 * TimeScale)

\* 0.5 * deltaTime
chaosDecay(deltaTime) == (deltaTime * ChaosScale) \div (2 * TimeScale)

updateChaos(w, deltaTime, dampening) ==
    LET n == booksOnFloor(w)
        c == w.gameData.chaosLevel
        c1 == IF n > 0 THEN c + chaosAccrual(n, deltaTime, dampening)
              ELSE IF c > 0 THEN c - chaosDecay(deltaTime)
              ELSE c
    IN [w EXCEPT !.gameData.chaosLevel = Max(0, Min(maxChaos, c1))]

\* ------------------------------------------------------ updateKidSpawning
\* minutes > m, minutes >= m on elapsedTime
minutesOver(elapsed, m) == elapsed > m * 60 * TimeScale
minutesAtLeast(elapsed, m) == elapsed >= m * 60 * TimeScale

\* rampMaxKids with its two tests in the wrong order
rampMaxKids_WrongOrder(elapsed, current) ==
    IF minutesOver(elapsed, 2) THEN 5
    ELSE IF minutesOver(elapsed, 5) THEN 10
    ELSE current

\* if (minutes > 5) this.maxKids = 10; else if (minutes > 2) this.maxKids = 5
rampMaxKids(elapsed, current) ==
    IF minutesOver(elapsed, 5) THEN 10
    ELSE IF minutesOver(elapsed, 2) THEN 5
    ELSE current

\* spawnAggression with > for >=
spawnAggression_Strict(elapsed) ==
    IF minutesOver(elapsed, 10) THEN 3
    ELSE IF minutesOver(elapsed, 5) THEN 2
    ELSE 1

\* the aggressionLevel of a kid spawned now
spawnAggression(elapsed) ==
    IF minutesAtLeast(elapsed, 10) THEN 3
    ELSE IF minutesAtLeast(elapsed, 5) THEN 2
    ELSE 1

\* updateKidSpawning with > for >= in the capacity test
updateKidSpawning_OffByOneCap(w, deltaTime) ==
    LET elapsed == w.gameData.elapsedTime
        mk == rampMaxKids(elapsed, w.maxKids)
        w1 == [w EXCEPT !.maxKids = mk,
                        !.log = Append(w.log, Event("scheduler", Len(w.kids), mk))]
    IN IF Len(w1.kids) > w1.maxKids THEN w1
       ELSE LET timer == w1.kidSpawnTimer - deltaTime
            IN IF timer <= 0
               THEN LET aggressionLevel == spawnAggression(elapsed)
                    IN [w1 EXCEPT !.kids = Append(w1.kids, newKid(aggressionLevel)),
                                  !.kidSpawnTimer = kidSpawnInterval,
                                  !.sinceSpawn = 0,
                                  !.log = Append(w1.log,
                                             Event("spawn", aggressionLevel, Len(w1.kids)))]
               ELSE [w1 EXCEPT !.kidSpawnTimer = timer,
                               !.sinceSpawn = w1.sinceSpawn + deltaTime]

\* updateKidSpawning with the timer decremented before the capacity test
updateKidSpawning_TimerBeforeCap(w, deltaTime) ==
    LET elapsed == w.gameData.elapsedTime
        mk == rampMaxKids(elapsed, w.maxKids)
        timer == w.kidSpawnTimer - deltaTime
        w1 == [w EXCEPT !.maxKids = mk,
                        !.kidSpawnTimer = timer,
                        !.log = Append(w.log, Event("scheduler", Len(w.kids), mk))]
    IN IF Len(w1.kids) >= w1.maxKids THEN w1
       ELSE IF timer <= 0
       THEN LET aggressionLevel == spawnAggression(elapsed)
            IN [w1 EXCEPT !.kids = Append(w1.kids, newKid(aggressionLevel)),
                          !.kidSpawnTimer = kidSpawnInterval,
                          !.sinceSpawn = 0,
                          !.log = Append(w1.log,
                                     Event("spawn", aggressionLevel, Len(w1.kids)))]
       ELSE [w1 EXCEPT !.sinceSpawn = w1.sinceSpawn + deltaTime]

\* The entry "scheduler" of the log records kids.length and maxKids at the
\* capacity test, the entry "spawn" the new kid's aggressionLevel and the
\* number of kids before it; sinceSpawn adds up the deltaTime of the calls
\* that pass the capacity test since the last spawn.
updateKidSpawning(w, deltaTime) ==
    LET elapsed == w.gameData.elapsedTime
        mk == rampMaxKids(elapsed, w.maxKids)
        w1 == [w EXCEPT !.maxKids = mk,
                        !.log = Append(w.log, Event("scheduler", Len(w.kids), mk))]
    IN IF Len(w1.kids) >= w1.maxKids THEN w1
       ELSE LET timer == w1.kidSpawnTimer - deltaTime
            IN IF timer <= 0
               THEN LET aggressionLevel == spawnAggression(elapsed)
                    IN [w1 EXCEPT !.kids = Append(w1.kids, newKid(aggressionLevel)),
                                  !.kidSpawnTimer = kidSpawnInterval,
                                  !.sinceSpawn = 0,
                                  !.log = Append(w1.log,
                                             Event("spawn", aggressionLevel, Len(w1.kids)))]
               ELSE [w1 EXCEPT !.kidSpawnTimer = timer,
                               !.sinceSpawn = w1.sinceSpawn + deltaTime]

\* -------------------------------------------------------- checkBookPickup
\* pickupOne without the call of book.pickup(this.player)
pickupOne_NoBookPickup(w, book, nearBooks, mult) ==
    IF w.isHeld[book] \/ w.isShelved[book] THEN w
    ELSE IF book \in nearBooks /\ canPickupBook(w)
    THEN LET w1 == pickupBook(w, book)
             w2 == [w1 EXCEPT !.gameData.booksCollected = w1.gameData.booksCollected + 1,
                              !.gameData.chaosLevel = w1.gameData.chaosLevel - pickupChaosDelta,
                              !.log = Append(w1.log, Event("pickup", book, 0))]
         IN awardXP(w2, pickupXP, mult)
    ELSE w

\* the body of the loop of checkBookPickup for one book
pickupOne(w, book, nearBooks, mult) ==
    IF w.isHeld[book] \/ w.isShelved[book] THEN w
    ELSE IF book \in nearBooks /\ canPickupBook(w)
    THEN LET w1 == bookPickup(pickupBook(w, book), book)
             w2 == [w1 EXCEPT !.gameData.booksCollected = w1.gameData.booksCollected + 1,
                              !.gameData.chaosLevel = w1.gameData.chaosLevel - pickupChaosDelta,
                              !.log = Append(w1.log, Event("pickup", book, 0))]
         IN awardXP(w2, pickupXP, mult)
    ELSE w

RECURSIVE pickupFrom(_, _, _, _)
pickupFrom(w, i, nearBooks, mult) ==
    IF i > Len(books) THEN w
    ELSE pickupFrom(pickupOne(w, books[i], nearBooks, mult), i + 1, nearBooks, mult)

checkBookPickup(w, nearBooks, mult) == pickupFrom(w, 1, nearBooks, mult)

\* ------------------------------------------------------ checkBookSnatching
\* snatchOne without booksCollected++
snatchOne_NoCount(w, k, nearKids, mult) ==
    IF w.kids[k].carriedBook = NoBook THEN w
    ELSE IF k \in nearKids
    THEN LET book == w.kids[k].carriedBook
             w1 == [w EXCEPT !.kids[k].carriedBook = NoBook,
                             !.kids[k].dropBookTimer = 0]
         IN IF canPickupBook(w1)
            THEN LET w2 == bookPickup(pickupBook(w1, book), book)
                     w3 == [w2 EXCEPT
                              !.kids[k].state = "fleeing",
                              !.gameData.chaosLevel = w2.gameData.chaosLevel - snatchChaosDelta,
                              !.log = Append(w2.log, Event("snatch", book, k))]
                 IN awardXP(w3, snatchXP, mult)
            ELSE [w1 EXCEPT !.log = Append(w1.log, Event("snatchRefused", book, k))]
    ELSE w

\* the body of the loop of checkBookSnatching for one kid
snatchOne(w, k, nearKids, mult) ==
    IF w.kids[k].carriedBook = NoBook THEN w
    ELSE IF k \in nearKids
    THEN LET book == w.kids[k].carriedBook
             w1 == [w EXCEPT !.kids[k].carriedBook = NoBook,
                             !.kids[k].dropBookTimer = 0]
         IN IF canPickupBook(w1)
            THEN LET w2 == bookPickup(pickupBook(w1, book), book)
                     w3 == [w2 EXCEPT
                              !.gameData.booksCollected = w2.gameData.booksCollected + 1,
                              !.kids[k].state = "fleeing",
                              !.gameData.chaosLevel = w2.gameData.chaosLevel - snatchChaosDelta,
                              !.log = Append(w2.log, Event("snatch", book, k))]
                 IN awardXP(w3, snatchXP, mult)
            ELSE [w1 EXCEPT !.log = Append(w1.log, Event("snatchRefused", book, k))]
    ELSE w

RECURSIVE snatchFrom(_, _, _, _)
snatchFrom(w, k, nearKids, mult) ==
    IF k > Len(w.kids) THEN w
    ELSE snatchFrom(snatchOne(w, k, nearKids, mult), k + 1, nearKids, mult)

checkBookSnatching(w, nearKids, mult) ==
    IF Len(w.carriedBooks) >= carrySlots THEN w
    ELSE snatchFrom(w, 1, nearKids, mult)

\* ------------------------------------------------------- checkBookShelving
\* the body of the loop of checkBookShelving for one shelf
shelveOne(w, shelf, nearShelves, mult) ==
    IF shelf \in nearShelves /\ hasEmptySlots(w, shelf)
    THEN LET i == shelveIndex(w, shelf)
         IN IF i = 0 THEN w
            ELSE LET book == w.carriedBooks[i]
                     w1 == shelveBook(w, i)
                 IN IF canAddBook(w1, shelf, book)
                    THEN LET w2 == addBook(w1, shelf, book)
                             w3 == [w2 EXCEPT
                                      !.gameData.booksShelved = w2.gameData.booksShelved + 1,
                                      !.gameData.chaosLevel = w2.gameData.chaosLevel - shelveChaosDelta,
                                      !.log = Append(w2.log, Event("shelve", book, shelf))]
                         IN awardXP(w3, shelveXP, mult)
                    ELSE w1
    ELSE w

RECURSIVE shelveFrom(_, _, _, _)
shelveFrom(w, i, nearShelves, mult) ==
    IF i > Len(shelves) THEN w
    ELSE shelveFrom(shelveOne(w, shelves[i], nearShelves, mult), i + 1, nearShelves, mult)

checkBookShelving(w, nearShelves, mult) ==
    IF Len(w.carriedBooks) = 0 THEN w
    ELSE shelveFrom(w, 1, nearShelves, mult)

\* --------------------------------------------------------- updateParticles
RECURSIVE particlesFrom(_, _, _, _)
\* particlesFrom with age > lifetime for age >= lifetime
particlesFrom_Strict(w, old, i, deltaTime) ==
    IF i > Len(old) THEN w
    ELSE LET p == [old[i] EXCEPT !.age = old[i].age + deltaTime]
         IN IF p.age > p.lifetime
            THEN particlesFrom(poolRelease(w, p.id), old, i + 1, deltaTime)
            ELSE particlesFrom([w EXCEPT !.particles = Append(w.particles, p)],
                               old, i + 1, deltaTime)

\* the filter callback of updateParticles, particle by particle
particlesFrom(w, old, i, deltaTime) ==
    IF i > Len(old) THEN w
    ELSE LET p == [old[i] EXCEPT !.age = old[i].age + deltaTime]
         IN IF p.age >= p.lifetime
            THEN particlesFrom(poolRelease(w, p.id), old, i + 1, deltaTime)
            ELSE particlesFrom([w EXCEPT !.particles = Append(w.particles, p)],
                               old, i + 1, deltaTime)

updateParticles(w, deltaTime) ==
    particlesFrom([w EXCEPT !.particles = <<>>], w.particles, 1, deltaTime)

\* ------------------------------------------------------------------ update
\* what the kids do in their updates of a tick: nothing, or one of them takes a
\* shelved book (the first kid that carries none: kids that carry nothing are
\* alike), or one of them drops the book it carries
KidActs(w) ==
    {[kind |-> "none", k |-> 0, book |-> NoBook]}
    \cup {[kind |-> "steal", k |-> k, book |-> b] :
             k \in {j \in 1..Len(w.kids) :
                       /\ w.kids[j].carriedBook = NoBook
                       /\ \A i \in 1..(j - 1) : w.kids[i].carriedBook # NoBook},
             b \in {c \in Range(books) : w.isShelved[c]}}
    \cup {[kind |-> "drop", k |-> k, book |-> w.kids[k].carriedBook] :
             k \in {j \in 1..Len(w.kids) : w.kids[j].carriedBook # NoBook}}

\* for (const kid of this.kids) kid.update(deltaTime)
kidsUpdate(w, act) ==
    IF act.kind = "steal" THEN kidSteal(w, act.k, act.book)
    ELSE IF act.kind = "drop" THEN kidDrop(w, act.k)
    ELSE w

\* updateHead without the return after the victory request
updateHead_NoReturn(w, deltaTime, dampening) ==
    LET w1 == [w EXCEPT !.gameData.elapsedTime = w.gameData.elapsedTime + deltaTime]
        w2 == IF w1.gameData.elapsedTime >= targetTime
              THEN [w1 EXCEPT !.log = Append(w1.log, Event("gameover", 1, 0))]
              ELSE w1
        w3 == updateChaos(w2, deltaTime, dampening)
    IN IF w3.gameData.chaosLevel >= maxChaos
       THEN [w3 EXCEPT !.log = Append(w3.log, Event("gameover", 0, 0))]
       ELSE w3

\* updateHead with gameData.elapsedTime = deltaTime for += deltaTime
updateHead_AssignElapsed(w, deltaTime, dampening) ==
    LET w1 == [w EXCEPT !.gameData.elapsedTime = deltaTime]
    IN IF w1.gameData.elapsedTime >= targetTime
       THEN [w1 EXCEPT !.log = Append(w1.log, Event("gameover", 1, 0))]
       ELSE LET w2 == updateChaos(w1, deltaTime, dampening)
            IN IF w2.gameData.chaosLevel >= maxChaos
               THEN [w2 EXCEPT !.log = Append(w2.log, Event("gameover", 0, 0))]
               ELSE w2

\* update, from gameData.elapsedTime += deltaTime to the chaos check
updateHead(w, deltaTime, dampening) ==
    LET w1 == [w EXCEPT !.gameData.elapsedTime = w.gameData.elapsedTime + deltaTime]
    IN IF w1.gameData.elapsedTime >= targetTime
       THEN [w1 EXCEPT !.log = Append(w1.log, Event("gameover", 1, 0))]
       ELSE LET w2 == updateChaos(w1, deltaTime, dampening)
            IN IF w2.gameData.chaosLevel >= maxChaos
               THEN [w2 EXCEPT !.log = Append(w2.log, Event("gameover", 0, 0))]
               ELSE w2

\* endedTick without the return after the defeat request
endedTick_VictoryOnly(w) ==
    \E i \in 1..Len(w.log) : w.log[i].ev = "gameover" /\ w.log[i].a = 1

\* whether update returned at one of its two gameover checks
endedTick(w) == \E i \in 1..Len(w.log) : w.log[i].ev = "gameover"

\* update, the spawn scheduler and the interaction passes and the particles
updateTail(w, deltaTime, mult, nearBooks, nearKids, nearShelves) ==
    LET w1 == updateKidSpawning(w, deltaTime)
        w2 == checkBookPickup(w1, nearBooks, mult)
        w3 == checkBookSnatching(w2, nearKids, mult)
        w4 == checkBookShelving(w3, nearShelves, mult)
    IN updateParticles(w4, deltaTime)

World ==
    [gameData |-> gameData, maxKids |-> maxKids, kidSpawnTimer |-> kidSpawnTimer,
     kids |-> kids, isHeld |-> isHeld, isShelved |-> isShelved, slots |-> slots,
     carriedBooks |-> carriedBooks, particles |-> particles, pool |-> pool,
     created |-> created, log |-> <<>>, sinceSpawn |-> sinceSpawn]

Install(w) ==
    /\ gameData' = w.gameData
    /\ maxKids' = w.maxKids
    /\ kidSpawnTimer' = w.kidSpawnTimer
    /\ kids' = w.kids
    /\ isHeld' = w.isHeld
    /\ isShelved' = w.isShelved
    /\ slots' = w.slots
    /\ carriedBooks' = w.carriedBooks
    /\ particles' = w.particles
    /\ pool' = w.pool
    /\ created' = w.created
    /\ log' = w.log
    /\ sinceSpawn' = w.sinceSpawn

\* whether the last update call asked the state manager for another state
requestedState ==
    \E i \in 1..Len(log) : log[i].ev \in {"paused", "gameover"}

\* stateManager.changeState('gameover', ...): the transition is terminal, the
\* state manager does not call update again in the run that requested it
runEnded == \E i \in 1..Len(log) : log[i].ev = "gameover"

\* UpdatePauseKey with the pause key tested after elapsedTime += deltaTime
UpdatePauseKey_AfterElapsed ==
    /\ phase = "running"
    /\ ~runEnded
    /\ ticks < MaxTicks
    /\ log' = <<Event("paused", 0, 0)>>
    /\ ticks' = ticks + 1
    /\ \E deltaTime \in DeltaTimes :
         gameData' = [gameData EXCEPT !.elapsedTime = gameData.elapsedTime + deltaTime]
    /\ UNCHANGED <<phase, maxKids, kidSpawnTimer, kids, books, shelves,
                   isHeld, isShelved, bookColor, shelfColor, slots, carriedBooks,
                   chaosDampening, xpMultiplier, particles, pool, created, sinceSpawn>>

\* update(deltaTime) with the pause key pressed
UpdatePauseKey ==
    /\ phase = "running"
    /\ ~runEnded
    /\ ticks < MaxTicks
    /\ log' = <<Event("paused", 0, 0)>>
    /\ ticks' = ticks + 1
    /\ UNCHANGED <<phase, gameData, maxKids, kidSpawnTimer, kids, books, shelves,
                   isHeld, isShelved, bookColor, shelfColor, slots, carriedBooks,
                   chaosDampening, xpMultiplier, particles, pool, created, sinceSpawn>>

\* update(deltaTime) past the pause key test, for one deltaTime
UpdateStep(deltaTime) ==
    /\ UNCHANGED <<phase, books, shelves, bookColor, shelfColor, chaosDampening,
                   xpMultiplier>>
    /\ IF gameData.isPaused
       THEN Install(World)
       ELSE LET h == updateHead(World, deltaTime, chaosDampening)
            IN IF endedTick(h)
               THEN Install(h)
               ELSE \E act \in KidActs(h) :
                      LET e == kidsUpdate(h, act)
                          floor == {b \in Range(books) : ~e.isHeld[b] /\ ~e.isShelved[b]}
                          carrying == {k \in 1..Len(e.kids) : e.kids[k].carriedBook # NoBook}
                          open == {s \in Range(shelves) : hasEmptySlots(e, s)}
                      IN \E nearBooks \in SUBSET floor,
                            nearKids \in SUBSET carrying,
                            nearShelves \in SUBSET open :
                           Install(updateTail(e, deltaTime, xpMultiplier,
                                              nearBooks, nearKids, nearShelves))

\* update(deltaTime) with no pause key pressed
UpdateRun ==
    /\ phase = "running"
    /\ ~runEnded
    /\ ticks < MaxTicks
    /\ ticks' = ticks + 1
    /\ \E deltaTime \in DeltaTimes : UpdateStep(deltaTime)

\* --------------------------------------------------------- enter and exit
freshGameData ==
    [chaosLevel |-> 0, maxChaos |-> maxChaos, playerLevel |-> 1, xp |-> 0,
     xpToNext |-> baseXpToNext, elapsedTime |-> 0, targetTime |-> targetTime,
     isPaused |-> FALSE, booksCollected |-> 0, booksShelved |-> 0,
     kidsRepelled |-> 0]

\* the shelf of the layout that book b is created for
shelfOfBook(b) == ((b - 1) \div capacity) + 1

\* the colours generateLibraryLayout draws for the shelves; the colours of the
\* palette are interchangeable, so each shelf takes a colour used before it or
\* the first unused one
Colorings ==
    {c \in [Shelves -> Colors] :
        \A s \in Shelves : \A x \in 1..(c[s] - 1) : \E t \in 1..(s - 1) : c[t] = x}

\* enter(): reset, generateLibraryLayout and initializeLevel, for a player
\* with the given stats and shelves of the given colours
EnterWith(dampening, mult, color) ==
    /\ phase \in {"constructed", "exited"}
    /\ phase' = "running"
    /\ gameData' = freshGameData
    /\ maxKids' = 3
    /\ kidSpawnTimer' = kidSpawnInterval
    /\ kids' = [i \in 1..initialKids |-> newKid(1)]
    /\ particles' = <<>>
    /\ chaosDampening' = dampening
    /\ xpMultiplier' = mult
    /\ shelfColor' = color
    /\ bookColor' = [b \in Books |-> color[shelfOfBook(b)]]
    /\ shelves' = [i \in 1..NumShelves |-> i]
    /\ books' = [i \in 1..NumBooks |-> i]
    /\ slots' = [s \in Shelves |-> [i \in 1..capacity |-> (s - 1) * capacity + i]]
    /\ isShelved' = [b \in Books |-> TRUE]
    /\ isHeld' = [b \in Books |-> FALSE]
    /\ carriedBooks' = <<>>
    /\ log' = <<>>
    /\ sinceSpawn' = 0
    /\ UNCHANGED <<pool, created, ticks>>

Enter ==
    \E dampening \in Dampenings, mult \in XPMultipliers, color \in Colorings :
        EnterWith(dampening, mult, color)

\* exit(): what it assigns
exitBody ==
    /\ phase' = "exited"
    /\ kids' = <<>>
    /\ books' = <<>>
    /\ particles' = <<>>
    /\ shelves' = <<>>
    /\ maxKids' = 3
    /\ kidSpawnTimer' = 0
    /\ log' = <<>>
    /\ UNCHANGED <<gameData, isHeld, isShelved, bookColor, shelfColor, slots,
                   carriedBooks, chaosDampening, xpMultiplier, pool, created,
                   sinceSpawn, ticks>>

\* exit(): the state manager leaves the playing state after a gameover
\* request, or from the pause screen
Exit ==
    /\ phase = "running"
    /\ requestedState
    /\ exitBody

\* gameData.isPaused is written outside PlayingState: it is set while the game
\* is paused and cleared when play resumes
SetPaused ==
    /\ phase = "running"
    /\ ~runEnded
    /\ gameData' = [gameData EXCEPT !.isPaused = ~gameData.isPaused]
    /\ UNCHANGED <<phase, maxKids, kidSpawnTimer, kids, books, shelves, isHeld,
                   isShelved, bookColor, shelfColor, slots, carriedBooks,
                   chaosDampening, xpMultiplier, particles, pool, created, log,
                   sinceSpawn, ticks>>

\* the state after construction
Init ==
    /\ phase = "constructed"
    /\ gameData = freshGameData
    /\ maxKids = 3
    /\ kidSpawnTimer = 0
    /\ kids = <<>>
    /\ books = <<>>
    /\ shelves = <<>>
    /\ isHeld = [b \in Books |-> FALSE]
    /\ isShelved = [b \in Books |-> FALSE]
    /\ bookColor = [b \in Books |-> 1]
    /\ shelfColor = [s \in Shelves |-> 1]
    /\ slots = [s \in Shelves |-> <<>>]
    /\ carriedBooks = <<>>
    /\ chaosDampening = 0
    /\ xpMultiplier = MultScale
    /\ particles = <<>>
    /\ pool = [i \in 1..initialSize |-> i]
    /\ created = initialSize
    /\ log = <<>>
    /\ sinceSpawn = 0
    /\ ticks = 0

Next == Enter \/ Exit \/ UpdatePauseKey \/ UpdateRun \/ SetPaused

Spec == Init /\ [][Next]_vars

\* ------------------------------------------------- runs played to their end
\* enter() for a player with the initial stats (no chaosDampening, XP
\* multiplier 1) and shelves of distinct colours
EnterDefault ==
    EnterWith(0, MultScale, [s \in Shelves |-> ((s - 1) % numColors) + 1])

\* the deltaTime values of a run played in long frames; the frame that starts
\* the run may be a short one
FrameTimes ==
    LongDeltaTimes \cup (IF gameData.elapsedTime = 0 THEN {ShortDeltaTime} ELSE {})

\* update(deltaTime) with no pause key pressed, in such a run; the calls are
\* counted modulo 2, so that a call that changes nothing else is a step too
UpdateLong ==
    /\ phase = "running"
    /\ ~runEnded
    /\ ticks' = (ticks + 1) % 2
    /\ \E deltaTime \in FrameTimes : UpdateStep(deltaTime)

NextLong == EnterDefault \/ UpdateLong

SpecLong == Init /\ [][NextLong]_vars

\* the scheduling of the game loop: update keeps being called until the run
\* has asked for its end. This is weak fairness of UpdateLong, written
\* out: the guard of UpdateLong stands for ENABLED <<UpdateLong>>_vars (every
\* other conjunct of UpdateLong is total), and the steps of NextLong that
\* change the call counter are those of UpdateLong.
SpecLongFair ==
    /\ SpecLong
    /\ \/ []<>~(phase = "running" /\ ~runEnded)
       \/ []<><<ticks' # ticks>>_vars

\* ------------------------------------------------------- awardXP on inputs
\* a run in progress: a level and an xp below its threshold
InitXP ==
    /\ phase = "running"
    /\ \E level \in 1..MaxStartLevel :
         \E x \in {0, 50, xpToNextFor(level) - 1} :
            gameData = [freshGameData EXCEPT !.playerLevel = level,
                                             !.xpToNext = xpToNextFor(level),
                                             !.xp = x]
    /\ maxKids = 3
    /\ kidSpawnTimer = kidSpawnInterval
    /\ kids = [i \in 1..initialKids |-> newKid(1)]
    /\ books = [i \in 1..NumBooks |-> i]
    /\ shelves = [i \in 1..NumShelves |-> i]
    /\ isHeld = [b \in Books |-> FALSE]
    /\ isShelved = [b \in Books |-> TRUE]
    /\ bookColor = [b \in Books |-> 1]
    /\ shelfColor = [s \in Shelves |-> 1]
    /\ slots = [s \in Shelves |-> [i \in 1..capacity |-> (s - 1) * capacity + i]]
    /\ carriedBooks = <<>>
    /\ chaosDampening = 0
    /\ xpMultiplier \in XPCallMultipliers
    /\ particles = <<>>
    /\ pool = [i \in 1..initialSize |-> i]
    /\ created = initialSize
    /\ log = <<>>
    /\ sinceSpawn = 0
    /\ ticks = 0

\* awardXP(amount); the log starts with the call: its amount and multiplier
AwardXPCall ==
    /\ ticks < MaxCalls
    /\ ticks' = ticks + 1
    /\ \E amount \in XPAmounts :
         Install(awardXP([World EXCEPT !.log = <<Event("awardXP", amount, xpMultiplier)>>],
                         amount, xpMultiplier))
    /\ UNCHANGED <<phase, books, shelves, bookColor, shelfColor, chaosDampening,
                   xpMultiplier>>

\* updateParticles(deltaTime); the log holds the call and its deltaTime
UpdateParticlesCall ==
    /\ ticks < MaxCalls
    /\ ticks' = ticks + 1
    /\ \E deltaTime \in ParticleDeltaTimes :
         Install(updateParticles(
                   [World EXCEPT !.log = <<Event("updateParticles", deltaTime, 0)>>],
                   deltaTime))
    /\ UNCHANGED <<phase, books, shelves, bookColor, shelfColor, chaosDampening,
                   xpMultiplier>>

NextXP == AwardXPCall \/ UpdateParticlesCall

SpecXP == InitXP /\ [][NextXP]_vars

\* --------------------------------------------------- updateChaos on inputs
\* where the books of a run in progress can be: on their shelf, on the floor,
\* carried by one of the kids, or carried by the player
Placements ==
    {pl \in [Books -> {"shelf", "floor", "kid", "player"}] :
        /\ Cardinality({b \in Books : pl[b] = "kid"}) <= initialKids
        /\ Cardinality({b \in Books : pl[b] = "player"}) <= carrySlots}

\* the i-th of the books that kids carry under a placement
carriedNth(pl, i) ==
    CHOOSE b \in Books :
        /\ pl[b] = "kid"
        /\ Cardinality({c \in Books : pl[c] = "kid" /\ c < b}) = i - 1

\* a run in progress: books on shelves, on the floor and with the kids, a
\* chaosLevel and a chaosDampening
InitChaos ==
    /\ phase = "running"
    /\ \E c \in ChaosLevels : gameData = [freshGameData EXCEPT !.chaosLevel = c]
    /\ chaosDampening \in ChaosDampenings
    /\ maxKids = 3
    /\ kidSpawnTimer = kidSpawnInterval
    /\ books = [i \in 1..NumBooks |-> i]
    /\ shelves = [i \in 1..NumShelves |-> i]
    /\ bookColor = [b \in Books |-> 1]
    /\ shelfColor = [s \in Shelves |-> 1]
    /\ \E pl \in Placements :
         /\ isShelved = [b \in Books |-> pl[b] = "shelf"]
         /\ isHeld = [b \in Books |-> pl[b] \in {"kid", "player"}]
         /\ carriedBooks = SelectSeq([i \in 1..NumBooks |-> i],
                                    LAMBDA b : pl[b] = "player")
         /\ slots = [s \in Shelves |->
                       SelectSeq([i \in 1..capacity |-> (s - 1) * capacity + i],
                                 LAMBDA b : pl[b] = "shelf")]
         /\ kids = [i \in 1..initialKids |->
                      IF i <= Cardinality({b \in Books : pl[b] = "kid"})
                      THEN [newKid(1) EXCEPT !.carriedBook = carriedNth(pl, i),
                                             !.dropBookTimer = 1,
                                             !.state = "carrying"]
                      ELSE newKid(1)]
    /\ xpMultiplier = MultScale
    /\ particles = <<>>
    /\ pool = [i \in 1..initialSize |-> i]
    /\ created = initialSize
    /\ log = <<>>
    /\ sinceSpawn = 0
    /\ ticks = 0

\* updateChaos(deltaTime); the log records the call: its deltaTime and the
\* number of floor books it finds
UpdateChaosCall ==
    /\ ticks < MaxChaosCalls
    /\ ticks' = ticks + 1
    /\ \E deltaTime \in ChaosDeltaTimes :
         Install(updateChaos(
                   [World EXCEPT !.log = <<Event("updateChaos", deltaTime,
                                                 booksOnFloor(World))>>],
                   deltaTime, chaosDampening))
    /\ UNCHANGED <<phase, books, shelves, bookColor, shelfColor, chaosDampening,
                   xpMultiplier>>

NextChaos == UpdateChaosCall

SpecChaos == InitChaos /\ [][NextChaos]_vars

\* ------------------------- awardXP, updateParticles, enter and exit in any order
\* a run in progress; earlier awardXP calls have taken instances out of the
\* pool and enter() or exit() has dropped them from the particle list
InitParticles ==
    /\ phase = "running"
    /\ gameData = freshGameData
    /\ maxKids = 3
    /\ kidSpawnTimer = kidSpawnInterval
    /\ kids = [i \in 1..initialKids |-> newKid(1)]
    /\ books = [i \in 1..NumBooks |-> i]
    /\ shelves = [i \in 1..NumShelves |-> i]
    /\ isHeld = [b \in Books |-> FALSE]
    /\ isShelved = [b \in Books |-> TRUE]
    /\ bookColor = [b \in Books |-> 1]
    /\ shelfColor = [s \in Shelves |-> 1]
    /\ slots = [s \in Shelves |-> [i \in 1..capacity |-> (s - 1) * capacity + i]]
    /\ carriedBooks = <<>>
    /\ chaosDampening = 0
    /\ xpMultiplier = MultScale
    /\ particles = <<>>
    /\ \E free \in FreeInstances : pool = [i \in 1..free |-> i]
    /\ created = initialSize
    /\ log = <<>>
    /\ sinceSpawn = 0
    /\ ticks = 0

\* exit(), whenever the playing state is the active one
ExitCall ==
    /\ phase = "running"
    /\ exitBody

NextParticles == AwardXPCall \/ UpdateParticlesCall \/ EnterDefault \/ ExitCall

SpecParticles == InitParticles /\ [][NextParticles]_vars

\* ---------------------------------------------------- ObjectPool on inputs
\* new ObjectPool(creationFunc, initialSize); particles holds the instances
\* the caller has got and not released
InitPool ==
    /\ phase = "running"
    /\ gameData = freshGameData
    /\ maxKids = 3
    /\ kidSpawnTimer = kidSpawnInterval
    /\ kids = [i \in 1..initialKids |-> newKid(1)]
    /\ books = [i \in 1..NumBooks |-> i]
    /\ shelves = [i \in 1..NumShelves |-> i]
    /\ isHeld = [b \in Books |-> FALSE]
    /\ isShelved = [b \in Books |-> TRUE]
    /\ bookColor = [b \in Books |-> 1]
    /\ shelfColor = [s \in Shelves |-> 1]
    /\ slots = [s \in Shelves |-> [i \in 1..capacity |-> (s - 1) * capacity + i]]
    /\ carriedBooks = <<>>
    /\ chaosDampening = 0
    /\ xpMultiplier = MultScale
    /\ particles = <<>>
    /\ \E size \in PoolSizes :
         /\ pool = [i \in 1..size |-> i]
         /\ created = size
    /\ log = <<>>
    /\ sinceSpawn = 0
    /\ ticks = 0

\* get(); the log keeps the history of the calls: the instance returned and
\* the number of instances the factory built for it
PoolGet ==
    /\ ticks < MaxPoolOps
    /\ ticks' = ticks + 1
    /\ LET obj == poolGetObj(World)
           w == poolGet(World)
       IN Install([w EXCEPT
                     !.particles = Append(particles,
                                          [id |-> obj, age |-> 0,
                                           lifetime |-> particleLifetime]),
                     !.log = Append(log, Event("get", obj, w.created - created))])
    /\ UNCHANGED <<phase, books, shelves, bookColor, shelfColor, chaosDampening,
                   xpMultiplier>>

\* release(obj) of an instance the caller has
PoolRelease ==
    /\ ticks < MaxPoolOps
    /\ ticks' = ticks + 1
    /\ \E i \in 1..Len(particles) :
         Install([poolRelease(World, particles[i].id) EXCEPT
                    !.particles = RemoveAt(particles, i),
                    !.log = Append(log, Event("release", particles[i].id, 0))])
    /\ UNCHANGED <<phase, books, shelves, bookColor, shelfColor, chaosDampening,
                   xpMultiplier>>

NextPool == PoolGet \/ PoolRelease

SpecPool == InitPool /\ [][NextPool]_vars

\* ================================================================== claims
running == phase = "running"

\* a step of a run that is an update call
TickStep == phase = "running" /\ phase' = "running" /\ ticks' = ticks + 1

LogHas(e) == \E i \in 1..Len(log) : log[i].ev = e

Occurrences(s, x) == Cardinality({i \in 1..Len(s) : s[i] = x})

RECURSIVE SumOver(_, _)
SumOver(f, S) ==
    IF S = {} THEN 0
    ELSE LET x == CHOOSE y \in S : TRUE IN f[x] + SumOver(f, S \ {x})

\* the number of places that hold book b: the floor (neither held nor
\* shelved), the player's carriedBooks, the kids' carriedBook, the shelves' slots
Owners(b) ==
    (IF ~isHeld[b] /\ ~isShelved[b] THEN 1 ELSE 0)
    + Occurrences(carriedBooks, b)
    + Cardinality({k \in 1..Len(kids) : kids[k].carriedBook = b})
    + SumOver([s \in Range(shelves) |-> Occurrences(slots[s], b)], Range(shelves))

\* C1 (as claimed): in every state of a run, after any update call with its
\* pickup, snatch and shelving deltas, 0 <= chaosLevel <= maxChaos.
C1_ChaosWithinBounds ==
    running => (0 <= gameData.chaosLevel /\ gameData.chaosLevel <= gameData.maxChaos)

\* C2: no book is referenced by more than one of the floor, the player's
\* carriedBooks, a kid's carriedBook and a shelf's slot list.
C2_Exclusive ==
    running => \A b \in Range(books) : Owners(b) <= 1

\* C2's case: books have been picked up or snatched and shelved, the last
\* update call snatched one
C2_Witness ==
    /\ running
    /\ LogHas("snatch")
    /\ gameData.booksCollected >= 2
    /\ gameData.booksShelved >= 1

\* C3 (as claimed): at every tick boundary every book of the level has exactly
\* one owner; no pass leaves a book with no owner.
C3_ExactlyOneOwner ==
    running => \A b \in Range(books) : Owners(b) = 1

\* C4 (as claimed): a book the pickup or snatch pass of a tick gave to the
\* player is not shelved by the shelving pass of the same tick.
C4_NoSameTickShelving ==
    \A i, j \in 1..Len(log) :
        (log[i].ev \in {"pickup", "snatch"} /\ log[j].ev = "shelve")
            => log[i].a # log[j].a

\* Math.floor(100 * Math.pow(1.45, level - 1)) as JavaScript computes it
XpThresholds == <<100, 145, 210, 304, 442, 640, 929>>

\* C5: an awardXP call entered with xp < xpToNext that raises playerLevel by k
\* pushes 'upgradeSelection' exactly k times, level by level in increasing
\* order, sets xpToNext to floor(100 * 1.45^(playerLevel-1)) at each level
\* and returns with xp < xpToNext; xp 50 at level 1 awarded 80 at multiplier
\* 1 gives xp 30, level 2, xpToNext 145 and one push.
C5_LevelUps ==
    [][(ticks' = ticks + 1 /\ gameData.xp < gameData.xpToNext) =>
         LET k == gameData'.playerLevel - gameData.playerLevel
         IN /\ k >= 0
            /\ Len(log') = k + 1
            /\ \A i \in 1..k :
                  /\ log'[i + 1].ev = "upgradeSelection"
                  /\ log'[i + 1].a = gameData.playerLevel + i
                  /\ log'[i + 1].b = XpThresholds[gameData.playerLevel + i]
            /\ gameData'.xpToNext = XpThresholds[gameData'.playerLevel]
            /\ gameData'.xp < gameData'.xpToNext
            /\ gameData'.xp >= 0
            /\ (/\ gameData.xp = 50
                /\ gameData.playerLevel = 1
                /\ log'[1].a = 80
                /\ log'[1].b = MultScale)
                  => (/\ gameData'.xp = 30
                      /\ gameData'.playerLevel = 2
                      /\ gameData'.xpToNext = 145
                      /\ k = 1)]_vars

\* C5's case: the last awardXP call crossed two levels
C5_Witness ==
    /\ Len(log) = 3
    /\ log[1].ev = "awardXP"
    /\ log[2].ev = "upgradeSelection"
    /\ log[3].ev = "upgradeSelection"
    /\ log[3].a = log[2].a + 1
    /\ gameData.xp < gameData.xpToNext

\* C6 (as claimed): after an update call has pushed 'upgradeSelection', it
\* makes no further pickup, snatch or shelving transfer.
C6_NoTransferAfterInterrupt ==
    \A i, j \in 1..Len(log) :
        (i < j /\ log[i].ev = "upgradeSelection")
            => log[j].ev \notin {"pickup", "snatch", "shelve"}

\* C7: the scheduler adds a kid only when kids.length < maxKids at its
\* capacity test, and kids.length <= maxKids in every state.
C7_SpawnRespectsCap ==
    /\ Len(kids) <= maxKids
    /\ \A i \in 1..Len(log) :
          log[i].ev = "spawn"
              => \E j \in 1..(i - 1) : log[j].ev = "scheduler" /\ log[j].a < log[j].b

\* C7's case: the scheduler ran with kids.length = maxKids and added no kid
C7_Witness ==
    /\ running
    /\ Len(kids) = maxKids
    /\ LogHas("scheduler")
    /\ ~LogHas("spawn")

\* C8: after every update call in which the scheduler ran, maxKids is 10 past
\* minute 5, else 5 past minute 2, else 3; and no update call lowers maxKids.
C8_MaxKidsRamp ==
    [][TickStep =>
         /\ maxKids' >= maxKids
         /\ (\E i \in 1..Len(log') : log'[i].ev = "scheduler")
               => maxKids' = (IF gameData'.elapsedTime > 5 * 60 * TimeScale THEN 10
                              ELSE IF gameData'.elapsedTime > 2 * 60 * TimeScale THEN 5
                              ELSE 3)]_vars

\* C8's case: the scheduler ran past minute 5
C8_Witness ==
    /\ running
    /\ LogHas("scheduler")
    /\ gameData.elapsedTime > 5 * 60 * TimeScale
    /\ maxKids = 10

\* C9: an update call made with kids.length >= maxKids leaves kidSpawnTimer
\* alone; an update call adds at most one kid; a spawn sets kidSpawnTimer to
\* kidSpawnInterval; kidSpawnTimer > 0 after every update call; and a spawn
\* comes after at least kidSpawnInterval of deltaTime over uncapped calls
\* since the spawn before it.
C9_SpawnTimer ==
    [][TickStep =>
         LET sched == {i \in 1..Len(log') : log'[i].ev = "scheduler"}
             spawns == {i \in 1..Len(log') : log'[i].ev = "spawn"}
             capped == \A i \in sched : log'[i].a >= log'[i].b
         IN /\ capped => kidSpawnTimer' = kidSpawnTimer
            /\ Cardinality(spawns) <= 1
            /\ Len(kids') <= Len(kids) + 1
            /\ spawns # {} => kidSpawnTimer' = kidSpawnIntervalSeconds * TimeScale
            /\ kidSpawnTimer' > 0
            /\ spawns # {} =>
                 sinceSpawn + (gameData'.elapsedTime - gameData.elapsedTime)
                     >= kidSpawnIntervalSeconds * TimeScale]_vars

\* C9's case: a kid was spawned earlier, and the last update call ran the
\* scheduler at capacity
C9_Witness ==
    /\ running
    /\ Len(kids) > initialKids
    /\ \E i \in 1..Len(log) : log[i].ev = "scheduler" /\ log[i].a >= log[i].b
    /\ kidSpawnTimer = kidSpawnInterval

\* C10: a kid the scheduler creates gets aggressionLevel 3 from minute 10, 2
\* from minute 5, else 1, by the elapsedTime of that update call; no update
\* call changes the aggressionLevel of a kid there is.
C10_Aggression ==
    [][TickStep =>
         /\ Len(kids') >= Len(kids)
         /\ \A i \in 1..Len(kids) :
               kids'[i].aggressionLevel = kids[i].aggressionLevel
         /\ \A i \in (Len(kids) + 1)..Len(kids') :
               kids'[i].aggressionLevel =
                   (IF gameData'.elapsedTime >= 10 * 60 * TimeScale THEN 3
                    ELSE IF gameData'.elapsedTime >= 5 * 60 * TimeScale THEN 2
                    ELSE 1)]_vars

\* C10's case: kids of aggressionLevel 1, 2 and 3 together, the last one
\* spawned by the last update call
C10_Witness ==
    /\ running
    /\ LogHas("spawn")
    /\ \A a \in 1..3 : \E i \in 1..Len(kids) : kids[i].aggressionLevel = a

\* C11 (as claimed): updateChaos(deltaTime) with no floor book and
\* chaosLevel > 0 lowers chaosLevel by exactly 0.5 * deltaTime, floored at 0;
\* with one or more floor books it never lowers chaosLevel and raises it by
\* floorBooks * 0.1 * deltaTime * (1 - dampening/100), capped at maxChaos.
C11_UpdateChaos ==
    [][(ticks' = ticks + 1 /\ log'[1].ev = "updateChaos") =>
         LET dt == log'[1].a
             n == log'[1].b
             c == gameData.chaosLevel
             c1 == gameData'.chaosLevel
         IN /\ (n = 0 /\ c > 0) =>
                  \/ c1 = 0 /\ 2 * TimeScale * c <= dt * ChaosScale
                  \/ c1 > 0 /\ 2 * TimeScale * (c - c1) = dt * ChaosScale
            /\ n > 0 =>
                  /\ c1 >= c
                  /\ \/ c1 = maxChaosPoints * ChaosScale
                        /\ 1000 * TimeScale * (c1 - c)
                              <= n * dt * (100 - chaosDampening) * ChaosScale
                     \/ c1 < maxChaosPoints * ChaosScale
                        /\ 1000 * TimeScale * (c1 - c)
                              = n * dt * (100 - chaosDampening) * ChaosScale]_vars

\* C12: an update call made with the pause key pressed, or with
\* gameData.isPaused set, changes nothing of the simulation: gameData (elapsed
\* time, chaos, xp, level, counters), the spawn timer and maxKids, the kids,
\* where the books are, the particles and their pool.
C12_PausedTickFrame ==
    [][(TickStep /\ (gameData.isPaused \/ (\E i \in 1..Len(log') : log'[i].ev = "paused")))
          => /\ gameData' = gameData
             /\ kidSpawnTimer' = kidSpawnTimer
             /\ maxKids' = maxKids
             /\ kids' = kids
             /\ isHeld' = isHeld /\ isShelved' = isShelved
             /\ slots' = slots /\ carriedBooks' = carriedBooks
             /\ particles' = particles /\ pool' = pool /\ created' = created]_vars

\* C12's case: the last update call was made with the pause key pressed, in a
\* run with time elapsed, a book taken off its shelf and a particle in the air
C12_Witness ==
    /\ running
    /\ LogHas("paused")
    /\ gameData.elapsedTime > 0
    /\ particles # <<>>
    /\ \E b \in Range(books) : ~isShelved[b]

\* the gameover requests of an update call's log
Gameovers(l) == {i \in 1..Len(l) : l[i].ev = "gameover"}

AdvanceStep ==
    /\ phase = "running" /\ phase' = "running"
    /\ gameData'.elapsedTime # gameData.elapsedTime

\* C14: an update call in which elapsedTime reaches targetTime asks for
\* 'gameover' with won = true, one in which chaosLevel reaches maxChaos asks
\* for 'gameover' with won = false, and such a call does nothing else: no
\* entity update, no spawn, no pickup, snatch or shelving, no particle aging.
C14_GameoverTick ==
    [][AdvanceStep =>
         /\ gameData'.elapsedTime >= targetTimeSeconds * TimeScale
               => log' = <<Event("gameover", 1, 0)>>
         /\ gameData'.chaosLevel >= maxChaosPoints * ChaosScale
               => log' = <<Event("gameover", 0, 0)>>
         /\ Gameovers(log') # {}
               => /\ kids' = kids /\ maxKids' = maxKids
                  /\ kidSpawnTimer' = kidSpawnTimer
                  /\ isHeld' = isHeld /\ isShelved' = isShelved
                  /\ slots' = slots /\ carriedBooks' = carriedBooks
                  /\ particles' = particles /\ pool' = pool /\ created' = created
                  /\ gameData' = [gameData EXCEPT
                                    !.elapsedTime = gameData'.elapsedTime,
                                    !.chaosLevel = gameData'.chaosLevel]]_vars

\* C14's case: a run that has asked for its end by defeat, with a kid
\* carrying a book and more kids than the level starts with
C14_Witness ==
    /\ running
    /\ log = <<Event("gameover", 0, 0)>>
    /\ gameData.elapsedTime < targetTime
    /\ Len(kids) > initialKids
    /\ \E k \in 1..Len(kids) : kids[k].carriedBook # NoBook

\* the index of the last call ev(obj) before call i of the history, 0 if none
LastCall(ev, obj, i) ==
    LET js == {j \in 1..(i - 1) : log[j].ev = ev /\ log[j].a = obj}
    IN IF js = {} THEN 0 ELSE CHOOSE j \in js : \A h \in js : h <= j

\* the instances built by the constructor: those the factory built outside get()
Prewarmed == 1..(created - Cardinality({i \in 1..Len(log) : log[i].ev = "get" /\ log[i].b = 1}))

\* the instances that are free before call i: released since they were last
\* got, or built by the constructor and never got
FreeBefore(i) ==
    {obj \in 1..created :
        \/ LastCall("release", obj, i) > LastCall("get", obj, i)
        \/ obj \in Prewarmed /\ LastCall("get", obj, i) = 0}

\* C15: get() returns an instance that is free, the most recently released one
\* when one was released, and has the factory build one only when none is
\* free; so after N get(), N release() of those instances and N get(), the
\* last N calls build no instance and return exactly the N released ones.
C15_PoolReuse ==
    /\ \A i \in 1..Len(log) :
          log[i].ev = "get" =>
             LET free == FreeBefore(i)
                 released == {obj \in free : LastCall("release", obj, i) > 0}
             IN /\ free # {} =>
                      /\ log[i].b = 0
                      /\ log[i].a \in free
                      /\ released # {} =>
                            \A obj \in released :
                               LastCall("release", obj, i)
                                   <= LastCall("release", log[i].a, i)
                /\ free = {} =>
                      /\ log[i].b = 1
                      /\ \A j \in 1..(i - 1) : log[j].a # log[i].a
    /\ \A n \in 1..Len(log) :
          LET first == (Len(log) - 3 * n + 1)..(Len(log) - 2 * n)
              middle == (Len(log) - 2 * n + 1)..(Len(log) - n)
              last == (Len(log) - n + 1)..Len(log)
          IN (/\ 3 * n <= Len(log)
              /\ \A i \in first \cup last : log[i].ev = "get"
              /\ \A i \in middle : log[i].ev = "release"
              /\ {log[i].a : i \in middle} = {log[i].a : i \in first})
                => /\ \A i \in last : log[i].b = 0
                   /\ {log[i].a : i \in last} = {log[i].a : i \in first}

\* C15's case: an empty pool, two get() that build two instances, their
\* release in the order they were got, and two more get()
C15_Witness ==
    /\ Len(log) = 6
    /\ log[1].ev = "get" /\ log[1].b = 1
    /\ log[2].ev = "get" /\ log[2].b = 1
    /\ log[3] = Event("release", log[1].a, 0)
    /\ log[4] = Event("release", log[2].a, 0)
    /\ log[5].ev = "get"
    /\ log[6].ev = "get"

\* C16 (as claimed): once the player carries carrySlots books, also when the
\* last slot fills during the scan, the snatch pass leaves every remaining
\* kid alone: a kid within reach for which player.pickupBook has no slot
\* (entry "snatchRefused" of the log: its book and the kid) still carries its
\* book, with its dropBookTimer and state as they were.
C16_FullPlayerSnatchesNothing ==
    \A i \in 1..Len(log) :
        log[i].ev = "snatchRefused" =>
            /\ kids[log[i].b].carriedBook = log[i].a
            /\ kids[log[i].b].dropBookTimer # 0
            /\ kids[log[i].b].state = "carrying"

\* C17: when update keeps being called with deltaTime at least a positive
\* constant, the game not paused and no pause key pressed, every run comes to
\* ask for 'gameover': victory when elapsedTime >= targetTime, or defeat
\* before that.
C17_RunEnds ==
    (phase = "running") ~> (phase = "running" /\ Gameovers(log) # {})

\* C17's case: a run that went on for several update calls, books stolen
\* and dropped, and has asked for 'gameover' by victory at exactly targetTime
C17_Witness ==
    /\ running
    /\ log = <<Event("gameover", 1, 0)>>
    /\ gameData.elapsedTime = targetTime
    /\ gameData.chaosLevel > 0
    /\ Len(kids) > initialKids

\* the iterations of the level-up loop in the log of an awardXP call
LevelUpEntries(l) == {i \in 1..Len(l) : l[i].ev = "upgradeSelection"}

\* C18: the level-up loop of awardXP ends, after as many iterations as levels
\* gained and at most (xp after the award) / 100 of them: xpToNext is at
\* least 100 at every level and does not decrease from a level to the next.
C18_LoopBound ==
    [][(ticks' = ticks + 1 /\ log'[1].ev = "awardXP") =>
         LET iterations == Cardinality(LevelUpEntries(log'))
             xp == gameData.xp + multipliedAmount(log'[1].a, log'[1].b)
         IN /\ iterations = gameData'.playerLevel - gameData.playerLevel
            /\ iterations * baseXpToNext <= xp
            /\ gameData.xpToNext >= baseXpToNext
            /\ gameData'.xpToNext >= gameData.xpToNext
            /\ \A i \in LevelUpEntries(log') :
                  /\ log'[i].b >= baseXpToNext
                  /\ log'[i].b >= (IF i = 2 THEN gameData.xpToNext ELSE log'[i - 1].b)
            /\ \A level \in gameData.playerLevel..(gameData'.playerLevel - 1) :
                  /\ xpToNextFor(level) >= baseXpToNext
                  /\ xpToNextFor(level + 1) >= xpToNextFor(level)]_vars

\* C18's case: an awardXP call whose loop ran three times
C18_Witness ==
    /\ Len(log) = 4
    /\ log[1].ev = "awardXP"
    /\ LevelUpEntries(log) = {2, 3, 4}
    /\ gameData.playerLevel >= 4

\* C19: after an updateParticles(deltaTime) call every particle left in the
\* list has age < lifetime; the list is the old one without the particles
\* whose age reached their lifetime, in the old order and aged by deltaTime;
\* each particle taken out is in the pool once, after the instances that
\* were free before, and no particle left in the list is in the pool.
C19_UpdateParticles ==
    [][(ticks' = ticks + 1 /\ log'[1].ev = "updateParticles") =>
         LET deltaTime == log'[1].a
             survivors == SelectSeq(particles,
                                    LAMBDA p : p.age + deltaTime < p.lifetime)
             expired == {i \in 1..Len(particles) :
                            particles[i].age + deltaTime >= particles[i].lifetime}
         IN /\ \A j \in 1..Len(particles') :
                  particles'[j].age < particles'[j].lifetime
            /\ particles' = [j \in 1..Len(survivors) |->
                                [survivors[j] EXCEPT !.age = @ + deltaTime]]
            /\ Len(pool') = Len(pool) + Cardinality(expired)
            /\ SubSeq(pool', 1, Len(pool)) = pool
            /\ \A i \in expired :
                  Cardinality({j \in 1..Len(pool') : pool'[j] = particles[i].id}) = 1
            /\ \A j \in 1..Len(particles') :
                  \A n \in 1..Len(pool') : pool'[n] # particles'[j].id]_vars

\* C19's case: an updateParticles call took the older of two particles out,
\* released its instance, and left the younger one in the list
C19_Witness ==
    /\ log = <<Event("updateParticles", 2, 0)>>
    /\ Len(particles) = 1
    /\ particles[1].age = 2
    /\ particles[1].id = initialSize - 1
    /\ pool[Len(pool)] = initialSize

\* C20: in every state of a run booksShelved <= booksCollected, the books the
\* player carries being the difference at most, and no update call lowers
\* booksCollected or booksShelved.
C20_ShelvedAtMostCollected ==
    [][(phase' = "running") =>
         /\ gameData'.booksShelved <= gameData'.booksCollected
         /\ gameData'.booksShelved + Len(carriedBooks') <= gameData'.booksCollected
         /\ (phase = "running") =>
               /\ gameData'.booksCollected >= gameData.booksCollected
               /\ gameData'.booksShelved >= gameData.booksShelved]_vars

\* C20's case: the update call snatched a book from a kid and shelved it,
\* after an earlier call had counted a book too
C20_Witness ==
    /\ running
    /\ \E i, j \in 1..Len(log) : i < j /\ log[i].ev = "snatch" /\ log[j].ev = "shelve"
    /\ gameData.booksShelved >= 1
    /\ gameData.booksCollected = 2

\* the instances in the particle list
LiveInstances == {particles[i].id : i \in 1..Len(particles)}

\* C21: whatever the order of the awardXP, updateParticles, enter and exit
\* calls, no instance is in the particle list and in the free list of the
\* pool at once, no instance is twice in the free list, and no two particles
\* of the list are the same instance.
C21_PoolPrecondition ==
    /\ \A j \in 1..Len(pool) : pool[j] \notin LiveInstances
    /\ \A i, j \in 1..Len(pool) : i # j => pool[i] # pool[j]
    /\ \A i, j \in 1..Len(particles) : i # j => particles[i].id # particles[j].id

\* C21's case: an awardXP call took the last free instance, exit() dropped
\* its particle, a second awardXP call had the factory build an instance, and
\* two updateParticles calls released that one: it alone is free
C21_Witness ==
    /\ phase = "exited"
    /\ ticks = 4
    /\ gameData.xp = 12
    /\ created = initialSize + 1
    /\ pool = <<initialSize + 1>>
    /\ particles = <<>>

====
